---- MODULE Spec2Model ----
(***************************************************************************)
(* Evidence aggregation and budgeted summarisation pipeline of             *)
(* toe_evidence_analysis_enhanced.py: the truncation policy                *)
(* (smart_truncate_content), the evidence collector (read_evidence_folder) *)
(* and the two orchestration loops (the module-level loop and              *)
(* process_controls).                                                      *)
(*                                                                         *)
(* A Python string is modelled as a sequence of segments.  A segment       *)
(* [k, id, a, b] stands for the characters a..b (1-based, inclusive) of    *)
(* the source text (k, id): the decoded text of a file, a remote evidence  *)
(* text, a header, an elision marker, ...  Slicing and concatenation act   *)
(* on segments exactly as Python's act on characters, so lengths are the   *)
(* program's lengths and every kept character keeps its origin.            *)
(***************************************************************************)
EXTENDS Integers, Sequences, FiniteSets, TLC

VARIABLES trunc, ref, run, llm, xls

vars == <<trunc, ref, run, llm, xls>>

(***************************************************************************)
(* Program constants                                                       *)
(***************************************************************************)
MAX_FILE_CHARS == 15000
MAX_TOTAL_CHARS == 160000
\* Config.MAX_RETRIES, Config.RETRY_DELAY and Config.MAX_RETRY_DELAY (seconds)
MAX_RETRIES == 5
RETRY_DELAY == 1
MAX_RETRY_DELAY == 60

(***************************************************************************)
(* Bounds of the model                                                     *)
(***************************************************************************)
\* smart_truncate_content is explored for every cap 0..MaxCap and every
\* content length 0..MaxLen (plus the pipeline's own caps and long texts).
MaxCap == 200
MaxLen == 320

(***************************************************************************)
(* Strings as segment sequences                                            *)
(***************************************************************************)
Min(x, y) == IF x <= y THEN x ELSE y
Max(x, y) == IF x >= y THEN x ELSE y

SegLen(s) == s.b - s.a + 1

RECURSIVE TextLen(_)
\* len(text)
TextLen(t) == IF t = <<>> THEN 0 ELSE SegLen(Head(t)) + TextLen(Tail(t))

\* A whole source text of n characters.
Str(k, id, n) == IF n <= 0 THEN <<>> ELSE <<[k |-> k, id |-> id, a |-> 1, b |-> n]>>

RECURSIVE TakeChars(_, _)
\* the first n characters of t (0 <= n)
TakeChars(t, n) ==
    IF n <= 0 \/ t = <<>> THEN <<>>
    ELSE LET s == Head(t) IN
         IF SegLen(s) <= n
         THEN <<s>> \o TakeChars(Tail(t), n - SegLen(s))
         ELSE <<[s EXCEPT !.b = s.a + n - 1]>>

RECURSIVE DropChars(_, _)
\* t without its first n characters (0 <= n)
DropChars(t, n) ==
    IF t = <<>> THEN <<>>
    ELSE IF n <= 0 THEN t
    ELSE LET s == Head(t) IN
         IF SegLen(s) <= n
         THEN DropChars(Tail(t), n - SegLen(s))
         ELSE <<[s EXCEPT !.a = s.a + n]>> \o Tail(t)

\* Python's normalisation of a slice bound i for a sequence of length n.
PyIndex(i, n) == IF i < 0 THEN Max(0, n + i) ELSE Min(i, n)

\* t[:i]
SliceTo(t, i) == TakeChars(t, PyIndex(i, TextLen(t)))

\* t[i:]   (t[-0:] is t[0:], the whole text)
SliceFrom(t, i) == DropChars(t, PyIndex(i, TextLen(t)))

RECURSIVE Digits(_)
\* len(str(n)) for an integer n
Digits(n) ==
    IF n < 0 THEN 1 + Digits(0 - n)
    ELSE IF n < 10 THEN 1 ELSE 1 + Digits(n \div 10)

\* f"\n\n[TRUNCATED: {n} chars removed from middle]\n\n"
\* 14 characters, the digits of n, 29 characters.
TruncMarker(n) == Str("TRUNCATED", n, 43 + Digits(n))

\* f"\n[TRUNCATED: content exceeds {max_chars} chars]"
ExceedsMarker(max_chars) == Str("EXCEEDS", max_chars, 36 + Digits(max_chars))

(***************************************************************************)
(* smart_truncate_content                                                  *)
(***************************************************************************)
\* The same function without the final re-clip truncated[:max_chars].
SmartTruncateNoClip(content, max_chars) ==
    IF TextLen(content) <= max_chars THEN content
    ELSE LET keep_start == max_chars \div 2
             keep_end == max_chars \div 4
         IN  IF keep_start + keep_end < max_chars
             THEN SliceTo(content, keep_start)
                    \o TruncMarker(TextLen(content) - max_chars)
                    \o SliceFrom(content, 0 - keep_end)
             ELSE SliceTo(content, max_chars) \o ExceedsMarker(max_chars)

\* The same function with the early return taken for len(content) < max_chars only.
SmartTruncateStrict(content, max_chars) ==
    IF TextLen(content) < max_chars THEN content
    ELSE LET keep_start == max_chars \div 2
             keep_end == max_chars \div 4
         IN  IF keep_start + keep_end < max_chars
             THEN SliceTo(SliceTo(content, keep_start)
                            \o TruncMarker(TextLen(content) - max_chars)
                            \o SliceFrom(content, 0 - keep_end), max_chars)
             ELSE SliceTo(content, max_chars) \o ExceedsMarker(max_chars)

\* The same function with the tail taken from the front of the content.
SmartTruncateTailFromFront(content, max_chars) ==
    IF TextLen(content) <= max_chars THEN content
    ELSE LET keep_start == max_chars \div 2
             keep_end == max_chars \div 4
         IN  IF keep_start + keep_end < max_chars
             THEN SliceTo(SliceTo(content, keep_start)
                            \o TruncMarker(TextLen(content) - max_chars)
                            \o SliceTo(content, keep_end), max_chars)
             ELSE SliceTo(content, max_chars) \o ExceedsMarker(max_chars)

smart_truncate_content(content, max_chars) ==
    IF TextLen(content) <= max_chars THEN content
    ELSE LET keep_start == max_chars \div 2
             keep_end == max_chars \div 4
         IN  IF keep_start + keep_end < max_chars
             THEN LET truncated == SliceTo(content, keep_start)
                                     \o TruncMarker(TextLen(content) - max_chars)
                                     \o SliceFrom(content, 0 - keep_end)
                  IN  SliceTo(truncated, max_chars)
             ELSE SliceTo(content, max_chars) \o ExceedsMarker(max_chars)

(***************************************************************************)
(* The truncation policy on its own: any content, any cap                  *)
(***************************************************************************)
TruncCaps == (0 .. MaxCap) \cup {MAX_FILE_CHARS, MAX_TOTAL_CHARS}

TruncLens(cap) ==
    (0 .. MaxLen) \cup {cap + 1, cap + 12, MAX_FILE_CHARS + 1,
                        MAX_TOTAL_CHARS + 1, 2 * MAX_TOTAL_CHARS}

TruncIdle == [pc |-> "idle", content |-> <<>>, max_chars |-> 0, result |-> <<>>]
RefIdle == [pc |-> "idle"]
RunIdle == [pc |-> "idle"]
LlmIdle == [pc |-> "idle"]
XlsIdle == [pc |-> "idle"]

TruncInit ==
    /\ \E cap \in TruncCaps : \E n \in TruncLens(cap) :
          trunc = [pc |-> "call", content |-> Str("content", 0, n),
                   max_chars |-> cap, result |-> <<>>]
    /\ ref = RefIdle
    /\ run = RunIdle
    /\ llm = LlmIdle
    /\ xls = XlsIdle

\* result = smart_truncate_content(content, max_chars)
TruncCall ==
    /\ trunc.pc = "call"
    /\ trunc' = [trunc EXCEPT !.pc = "done",
                              !.result = smart_truncate_content(trunc.content, trunc.max_chars)]
    /\ UNCHANGED <<ref, run, llm, xls>>

TruncNext == TruncCall

SpecTrunc == TruncInit /\ [][TruncNext]_vars

(***************************************************************************)
(* Names and the evidence filesystem                                       *)
(***************************************************************************)
\* A name (control identifier, folder name) is a sequence of characters.
UpperChars == <<"A", "B", "C", "D", "E", "F", "G", "H", "I", "J", "K", "L", "M",
                "N", "O", "P", "Q", "R", "S", "T", "U", "V", "W", "X", "Y", "Z">>
LowerChars == <<"a", "b", "c", "d", "e", "f", "g", "h", "i", "j", "k", "l", "m",
                "n", "o", "p", "q", "r", "s", "t", "u", "v", "w", "x", "y", "z">>

LowerChar(c) ==
    IF \E i \in 1 .. 26 : UpperChars[i] = c
    THEN LowerChars[CHOOSE i \in 1 .. 26 : UpperChars[i] = c]
    ELSE c

\* name.lower()
Lower(name) == [i \in 1 .. Len(name) |-> LowerChar(name[i])]

Whitespace == {" ", "\t", "\n", "\r"}

RECURSIVE LStrip(_)
LStrip(name) ==
    IF name # <<>> /\ Head(name) \in Whitespace THEN LStrip(Tail(name)) ELSE name

RECURSIVE RStrip(_)
RStrip(name) ==
    IF name # <<>> /\ name[Len(name)] \in Whitespace
    THEN RStrip(SubSeq(name, 1, Len(name) - 1))
    ELSE name

\* name.strip()
Strip(name) == RStrip(LStrip(name))

\* The characters of the class [<>:"/\\|?*]
ReplacedChars == {"<", ">", ":", "\"", "/", "\\", "|", "?", "*"}

\* clean_name = re.sub(r'[<>:"/\\|?*]', '_', str(control_name).strip())
CleanName(control_name) ==
    LET stripped == Strip(control_name)
    IN  [i \in 1 .. Len(stripped) |->
            IF stripped[i] \in ReplacedChars THEN "_" ELSE stripped[i]]

\* s in t
IsSubstring(s, t) ==
    \E i \in 0 .. (Len(t) - Len(s)) : SubSeq(t, i + 1, i + Len(s)) = s

\* os.path.join(Config.EVIDENCE_ROOT, name): the directory the path denotes.
\* "Evidence/" and "Evidence/." are the evidence root, "Evidence/.." is its parent.
JoinRoot(name) ==
    IF name = <<>> \/ name = <<".">> THEN [kind |-> "root", name |-> name]
    ELSE IF name = <<".", ".">> THEN [kind |-> "parent", name |-> name]
    ELSE [kind |-> "child", name |-> name]

\* len(os.path.join("Evidence", name))
PathLen(folder) == 9 + Len(folder.name)

\* os.path.isdir(path) in the filesystem of env
IsDir(env, path) ==
    CASE path.kind = "root" -> env.root_exists
      [] path.kind = "parent" -> TRUE
      [] OTHER -> /\ env.root_exists
                  /\ \E i \in 1 .. Len(env.root) :
                        env.root[i].name = path.name /\ env.root[i].isdir

\* An entry of a directory listing: a regular file with its byte size and what
\* its decoder does, or something that is no regular file.  outcome "ok": the
\* decoder returns declen characters; "raise": it raises an exception whose
\* message has declen characters; "unsupported": the extension, of declen
\* characters, is none of the known ones.
DirEntry(fname_len, isfile, size, outcome, declen) ==
    [fname_len |-> fname_len, isfile |-> isfile, size |-> size,
     outcome |-> outcome, declen |-> declen]

\* os.listdir(folder), in the order the filesystem gives it.  The listing of
\* the evidence root is made of its own entries (its subfolders are no regular
\* files, its files have names without an extension); every other folder's
\* listing is env.listing.
ListDir(env, folder) ==
    IF folder.kind = "root"
    THEN [i \in 1 .. Len(env.root) |->
            DirEntry(Len(env.root[i].name), ~ env.root[i].isdir, env.root[i].size,
                     "unsupported", 0)]
    ELSE env.listing

(***************************************************************************)
(* read_evidence_folder                                                    *)
(***************************************************************************)
\* One item of the list `contents`, with what it is and the file it belongs to.
Item(kind, file, text) == [kind |-> kind, file |-> file, text |-> text]

RECURSIVE JoinItems(_)
\* '\n'.join(contents)
JoinItems(contents) ==
    IF contents = <<>> THEN <<>>
    ELSE IF Len(contents) = 1 THEN contents[1].text
    ELSE contents[1].text \o Str("newline", 0, 1) \o JoinItems(Tail(contents))

\* Lines 707-725: normalise the identifier, look for the folder (exactly, then
\* by case-insensitive substring over the subfolders of the root), and
\* initialise the locals.  folder_missing is assigned on two of the three
\* paths only: after a fuzzy match (the break) it stays unbound.
FirstFuzzy(env, clean_name) ==
    IF ~ env.root_exists THEN 0
    ELSE IF \E i \in 1 .. Len(env.root) :
                env.root[i].isdir /\ IsSubstring(Lower(clean_name), Lower(env.root[i].name))
    THEN CHOOSE i \in 1 .. Len(env.root) :
            /\ env.root[i].isdir
            /\ IsSubstring(Lower(clean_name), Lower(env.root[i].name))
            /\ \A j \in 1 .. (i - 1) :
                  ~ (env.root[j].isdir
                       /\ IsSubstring(Lower(clean_name), Lower(env.root[j].name)))
    ELSE 0

RefResolve(env) ==
    LET clean_name == CleanName(env.control_name)
        exact == JoinRoot(clean_name)
        fuzzy == FirstFuzzy(env, clean_name)
    IN  [pc |-> "remote", env |-> env, clean_name |-> clean_name,
         folder |-> IF IsDir(env, exact) \/ fuzzy = 0 THEN exact
                    ELSE JoinRoot(env.root[fuzzy].name),
         folder_missing |-> IF IsDir(env, exact) THEN "False"
                            ELSE IF fuzzy # 0 THEN "unbound" ELSE "True",
         contents |-> <<>>, file_count |-> 0, total_chars |-> 0, truncated |-> FALSE,
         files |-> <<>>, i |-> 1, result |-> <<>>, log |-> <<>>]

\* Lines 727-743: the remote evidence texts.  get_sap_grc_evidence and
\* get_jira_evidence catch their own failures and return text; an enabled
\* collaborator returns env.sap_len / env.jira_len characters.
RefRemote(r) ==
    LET sap_evidence == IF r.env.SAP_GRC_ENABLED THEN Str("sap", 0, r.env.sap_len) ELSE <<>>
        c1 == IF r.env.SAP_GRC_ENABLED /\ sap_evidence # <<>>
              THEN <<Item("sap", 0, sap_evidence)>> ELSE <<>>
        jira_evidence == IF r.env.JIRA_ENABLED THEN Str("jira", 0, r.env.jira_len) ELSE <<>>
        c2 == IF r.env.JIRA_ENABLED /\ jira_evidence # <<>>
              THEN <<Item("jira", 0, jira_evidence)>> ELSE <<>>
    IN  [r EXCEPT !.pc = "list",
                  !.contents = c1 \o c2,
                  !.total_chars = TextLen(sap_evidence) + TextLen(jira_evidence),
                  !.file_count = Len(c1) + Len(c2)]

RECURSIVE InsertBySize(_, _, _)
\* x goes after every element whose size is not larger (the sort is stable).
InsertBySize(entries, sorted, x) ==
    IF sorted = <<>> THEN <<x>>
    ELSE IF entries[Head(sorted)].size <= entries[x].size
    THEN <<Head(sorted)>> \o InsertBySize(entries, Tail(sorted), x)
    ELSE <<x>> \o sorted

RECURSIVE SortFrom(_, _, _)
SortFrom(entries, sorted, n) ==
    IF n > Len(entries) THEN sorted
    ELSE SortFrom(entries,
                  IF entries[n].isfile THEN InsertBySize(entries, sorted, n) ELSE sorted,
                  n + 1)

RECURSIVE FilesFrom(_, _)
\* Lines 749-752 without the sort of line 754: the regular files in listing order.
FilesFrom(entries, n) ==
    IF n > Len(entries) THEN <<>>
    ELSE (IF entries[n].isfile THEN <<n>> ELSE <<>>) \o FilesFrom(entries, n + 1)

UnsortedFiles(entries) == FilesFrom(entries, 1)

\* Lines 749-754: the regular files of the listing, as indices into it,
\* sorted by byte size (files.sort(key=lambda x: x[2])).
SortedFiles(entries) == SortFrom(entries, <<>>, 1)

\* Line 746 and lines 747-754.  Reading the unbound folder_missing raises
\* UnboundLocalError; os.listdir raises OSError when the folder cannot be read.
RefList(r) ==
    IF r.folder_missing = "unbound"
    THEN [r EXCEPT !.pc = "raised", !.result = Str("UnboundLocalError", 0, 1)]
    ELSE IF r.folder_missing = "False" /\ IsDir(r.env, r.folder)
    THEN IF r.env.listdir_raises
         THEN [r EXCEPT !.pc = "raised", !.result = Str("OSError", 0, 1)]
         ELSE [r EXCEPT !.pc = "loop", !.files = SortedFiles(ListDir(r.env, r.folder)),
                        !.i = 1]
    ELSE [r EXCEPT !.pc = "finish"]

\* f"=== LOCAL FILE {file_count}: {fname} ({file_size} bytes) ==="
FileHeader(file, file_count, entry) ==
    Str("header", file, 30 + Digits(file_count) + entry.fname_len + Digits(entry.size))

\* Lines 764-790 with an except clause that yields no text.
DecodeFileNoDiagnostic(file, entry) ==
    CASE entry.outcome = "ok" -> Str("file", file, entry.declen)
      [] entry.outcome = "unsupported" -> Str("unsupported", file, 25 + entry.declen)
      [] OTHER -> <<>>

\* Lines 764-790: the text of one file: the decoder's result, or
\* f"[Unsupported file type: {ext}]", or f"[Error reading {fname}: {e}]".
DecodeFile(file, entry) ==
    CASE entry.outcome = "ok" -> Str("file", file, entry.declen)
      [] entry.outcome = "unsupported" -> Str("unsupported", file, 25 + entry.declen)
      [] OTHER -> Str("error", file, 18 + entry.fname_len + entry.declen)

\* Lines 793-795 without the per-file cap.
PerFileBudgetNone(file_content) == [text |-> file_content, truncated |-> FALSE]

\* Lines 793-795: the per-file cap.
PerFileBudget(file_content) ==
    IF TextLen(file_content) > MAX_FILE_CHARS
    THEN [text |-> smart_truncate_content(file_content, MAX_FILE_CHARS), truncated |-> TRUE]
    ELSE [text |-> file_content, truncated |-> FALSE]

\* f"[STOPPED: Total evidence limit of {MAX_TOTAL_CHARS} chars reached]"
StoppedMarker == Str("STOPPED", 0, 49 + Digits(MAX_TOTAL_CHARS))

\* Lines 756-809: one iteration of the loop over the sorted files.
\* log keeps, per file reached, what happened to it.
RefFileStep(r) ==
    IF r.i > Len(r.files) THEN [r EXCEPT !.pc = "finish"]
    ELSE IF r.total_chars >= MAX_TOTAL_CHARS THEN [r EXCEPT !.pc = "finish"]
    ELSE
      LET file == r.files[r.i]
          entry == ListDir(r.env, r.folder)[file]
          file_count == r.file_count + 1
          header == Item("header", file, FileHeader(file, file_count, entry))
          decoded == DecodeFile(file, entry)
          budget == PerFileBudget(decoded)
          remaining_chars == MAX_TOTAL_CHARS - r.total_chars
          note == [file |-> file, decoded |-> decoded, budgeted |-> budget.text,
                   capped |-> budget.truncated, fit |-> "fits"]
      IN  IF TextLen(budget.text) > remaining_chars
          THEN IF remaining_chars > 100
               THEN [r EXCEPT
                       !.pc = "finish",
                       !.file_count = file_count,
                       !.truncated = TRUE,
                       !.contents = r.contents \o
                           <<header,
                             Item("body", file,
                                  smart_truncate_content(budget.text, remaining_chars - 50)),
                             Item("stopped", file, StoppedMarker)>>,
                       !.log = Append(r.log, [note EXCEPT !.fit = "clipped"])]
               ELSE [r EXCEPT
                       !.pc = "finish",
                       !.file_count = file_count,
                       !.truncated = TRUE,
                       !.contents = r.contents \o <<header>>,
                       !.log = Append(r.log, [note EXCEPT !.fit = "dropped"])]
          ELSE [r EXCEPT
                  !.i = r.i + 1,
                  !.file_count = file_count,
                  !.truncated = r.truncated \/ budget.truncated,
                  !.total_chars = r.total_chars + TextLen(budget.text),
                  !.contents = r.contents \o
                      <<header, Item("body", file, budget.text), Item("separator", file, <<>>)>>,
                  !.log = Append(r.log, [note EXCEPT !.fit = "fits"])]

\* f"No evidence found for control: {control_name} (Local folder: {folder},
\*    SAP GRC: {...}, Jira: {...})"
NoEvidenceText(r) ==
    Str("No evidence found for control: ", 0, 31)
      \o Str("control_name", 0, Len(r.env.control_name))
      \o Str("no evidence details", 0,
             16 + PathLen(r.folder) + 11
                + (IF r.env.SAP_GRC_ENABLED THEN 7 ELSE 8) + 8
                + (IF r.env.JIRA_ENABLED THEN 7 ELSE 8) + 1)

\* f"[WARNING: Evidence content was truncated. Processed {file_count} sources,
\*    total {len(result)} chars]" + "\n\n"
WarningBanner(file_count, result) ==
    Str("WARNING", 0, 75 + Digits(file_count) + Digits(TextLen(result)) + 2)

\* Lines 811-828: the sentinel, the join, the final clip and the banner.
RefFinish(r) ==
    IF r.file_count = 0
    THEN [r EXCEPT !.pc = "returned", !.result = NoEvidenceText(r)]
    ELSE LET joined == JoinItems(r.contents)
             over == TextLen(joined) > MAX_TOTAL_CHARS
             result == IF over THEN smart_truncate_content(joined, MAX_TOTAL_CHARS)
                       ELSE joined
             truncated == r.truncated \/ over
         IN  [r EXCEPT !.pc = "returned",
                       !.truncated = truncated,
                       !.result = IF truncated
                                  THEN WarningBanner(r.file_count, result) \o result
                                  ELSE result]

\* One step of read_evidence_folder from the local state r.
RefStep(r) ==
    CASE r.pc = "remote" -> RefRemote(r)
      [] r.pc = "list" -> RefList(r)
      [] r.pc = "loop" -> RefFileStep(r)
      [] r.pc = "finish" -> RefFinish(r)
      [] OTHER -> r

RECURSIVE RefRun(_)
RefRun(r) == IF r.pc \in {"returned", "raised"} THEN r ELSE RefRun(RefStep(r))

\* read_evidence_folder(control_name) in the environment env: the final local
\* state, with pc "returned" (result is the returned string) or "raised".
read_evidence_folder(env) == RefRun(RefResolve(env))

(***************************************************************************)
(* The evidence collector on its own: any control, any folder              *)
(***************************************************************************)
\* Largest number of entries of an evidence folder.
MaxFiles == 2

Name_c1 == <<"c", "1">>
Name_phrase == <<"N", "o", " ", "e", "v", "i", "d", "e", "n", "c", "e", " ",
                 "f", "o", "l", "d", "e", "r", " ", "f", "o", "u", "n", "d">>

RootEntry(name, isdir) == [name |-> name, isdir |-> isdir, size |-> 20]

\* Control identifiers with the evidence roots they meet: the identifier, whether
\* the root exists, and the root's entries in listing order.
Lookup(control_name, root_exists, root) ==
    [control_name |-> control_name, root_exists |-> root_exists, root |-> root]

LookupCases ==
    { Lookup(Name_c1, TRUE, <<RootEntry(<<"x">>, TRUE), RootEntry(Name_c1, TRUE)>>),
      Lookup(<<" ", "c", "/", "1", " ">>, TRUE, <<RootEntry(<<"c", "_", "1">>, TRUE)>>),
      Lookup(Name_c1, TRUE, <<RootEntry(<<"c", "1", "_", "o">>, TRUE)>>),
      Lookup(<<"C", "1">>, TRUE, <<RootEntry(<<"x">>, TRUE), RootEntry(Name_c1, TRUE)>>),
      Lookup(Name_c1, TRUE, <<RootEntry(Name_c1, FALSE), RootEntry(<<"x">>, TRUE)>>),
      Lookup(Name_c1, TRUE, <<>>),
      Lookup(Name_c1, FALSE, <<>>),
      Lookup(<<>>, TRUE, <<RootEntry(Name_c1, TRUE), RootEntry(<<"r">>, FALSE)>>),
      Lookup(<<".", ".">>, TRUE, <<RootEntry(Name_c1, TRUE)>>),
      Lookup(Name_phrase, TRUE, <<RootEntry(Name_c1, TRUE)>>) }

\* The entries an evidence folder may hold.
FileProfiles ==
    { DirEntry(5, TRUE, 50, "ok", 40),
      DirEntry(5, TRUE, 50, "ok", 0),
      DirEntry(6, TRUE, 700, "ok", MAX_FILE_CHARS),
      DirEntry(6, TRUE, 700, "ok", MAX_FILE_CHARS + 1),
      DirEntry(6, TRUE, 50, "ok", 4 * MAX_FILE_CHARS),
      DirEntry(6, TRUE, 700, "raise", 12),
      DirEntry(6, TRUE, 50, "unsupported", 4),
      DirEntry(3, FALSE, 0, "ok", 0) }

Listings == UNION { [1 .. n -> FileProfiles] : n \in 0 .. MaxFiles }

\* Lengths of the text an enabled remote collaborator returns.
SapLens ==
    { 30, MAX_TOTAL_CHARS - MAX_FILE_CHARS, MAX_TOTAL_CHARS - 140,
      MAX_TOTAL_CHARS - 101, MAX_TOTAL_CHARS - 100, MAX_TOTAL_CHARS,
      MAX_TOTAL_CHARS + 7 }
JiraLens == {25, 60}

RemoteCases ==
    { [SAP_GRC_ENABLED |-> s, sap_len |-> sl, JIRA_ENABLED |-> j, jira_len |-> jl] :
        s \in BOOLEAN, sl \in SapLens \cup {0}, j \in BOOLEAN, jl \in JiraLens \cup {0} }

Env(lookup, remote, listing) ==
    [control_name |-> lookup.control_name, root_exists |-> lookup.root_exists,
     root |-> lookup.root,
     SAP_GRC_ENABLED |-> remote.SAP_GRC_ENABLED, sap_len |-> remote.sap_len,
     JIRA_ENABLED |-> remote.JIRA_ENABLED, jira_len |-> remote.jira_len,
     listing |-> listing, listdir_raises |-> FALSE]

\* A listing matters only when a folder other than the root is found, by its
\* exact name or by the fuzzy match.
OpensSubfolder(lookup) ==
    LET clean_name == CleanName(lookup.control_name)
        path == JoinRoot(clean_name)
    IN  IF IsDir(lookup, path) THEN path.kind # "root"
        ELSE FirstFuzzy(lookup, clean_name) # 0

FolderEnvs ==
    { Env(l, rm, ls) :
        l \in LookupCases,
        rm \in { x \in RemoteCases : (x.SAP_GRC_ENABLED <=> x.sap_len > 0)
                                     /\ (x.JIRA_ENABLED <=> x.jira_len > 0) },
        ls \in Listings }

\* Whether os.listdir(folder) fails is the filesystem's choice at each call.
FolderInit ==
    /\ \E env \in FolderEnvs, io \in BOOLEAN :
          /\ (env.listing # <<>> =>
                OpensSubfolder(Lookup(env.control_name, env.root_exists, env.root)))
          /\ (io => RefResolve(env).folder_missing = "False")
          /\ ref = [pc |-> "resolve", env |-> [env EXCEPT !.listdir_raises = io]]
    /\ trunc = TruncIdle
    /\ run = RunIdle
    /\ llm = LlmIdle
    /\ xls = XlsIdle

\* clean_name, folder, folder_missing and the locals (lines 707-725)
ReadResolve ==
    /\ ref.pc = "resolve"
    /\ ref' = RefResolve(ref.env)
    /\ UNCHANGED <<trunc, run, llm, xls>>

\* the remote evidence (lines 727-743)
ReadRemote ==
    /\ ref.pc = "remote"
    /\ ref' = RefRemote(ref)
    /\ UNCHANGED <<trunc, run, llm, xls>>

\* the folder test and the sorted file list (lines 746-754)
ReadList ==
    /\ ref.pc = "list"
    /\ ref' = RefList(ref)
    /\ UNCHANGED <<trunc, run, llm, xls>>

\* one file (lines 756-809)
ReadFile ==
    /\ ref.pc = "loop"
    /\ ref' = RefFileStep(ref)
    /\ UNCHANGED <<trunc, run, llm, xls>>

\* the return value (lines 811-828)
ReadFinish ==
    /\ ref.pc = "finish"
    /\ ref' = RefFinish(ref)
    /\ UNCHANGED <<trunc, run, llm, xls>>

FolderNext == ReadResolve \/ ReadRemote \/ ReadList \/ ReadFile \/ ReadFinish

SpecFolder == FolderInit /\ [][FolderNext]_vars

(***************************************************************************)
(* read_evidence_folder on folders that fill the total budget: more files, *)
(* fewer kinds of file, and remote texts that leave room for some of them.  *)
(***************************************************************************)
MaxFullFiles == 4

FullProfiles ==
    { DirEntry(5, TRUE, 50, "ok", 40),
      DirEntry(6, TRUE, 700, "ok", MAX_FILE_CHARS),
      DirEntry(6, TRUE, 900, "ok", 4 * MAX_FILE_CHARS) }

FullListings == UNION { [1 .. n -> FullProfiles] : n \in 0 .. MaxFullFiles }

\* The remote text leaves room for k whole files and d more characters.
FullSapLens ==
    { MAX_TOTAL_CHARS - k * MAX_FILE_CHARS - d : k \in 0 .. MaxFullFiles, d \in {0, 50, 101, 5000} }

FullEnvs ==
    { Env(Lookup(Name_c1, TRUE, <<RootEntry(Name_c1, TRUE)>>),
          [SAP_GRC_ENABLED |-> sl > 0, sap_len |-> sl, JIRA_ENABLED |-> FALSE, jira_len |-> 0],
          ls) :
        sl \in FullSapLens \cup {0}, ls \in FullListings }

FullInit ==
    /\ \E env \in FullEnvs : ref = [pc |-> "resolve", env |-> env]
    /\ trunc = TruncIdle
    /\ run = RunIdle
    /\ llm = LlmIdle
    /\ xls = XlsIdle

SpecFull == FullInit /\ [][FolderNext]_vars

(***************************************************************************)
(* The generation service and make_llm_request_with_retry                  *)
(***************************************************************************)
\* What one call of client.chat.completions.create can do.  An error carries
\* what str(e).lower() contains: rate ("429", "too many requests" or "rate
\* limit"), c401 ("401"), unauth ("unauthorized"), bad ("400" or "bad
\* request"), invkey ("invalid api key"), nomodel ("model" and "not found").
\* "content" is a non-empty completion, "blank" one made of whitespace only,
\* "empty" a completion without content, "malformed" a response without
\* choices (an IndexError, whose message holds none of the keywords).
ErrorOutcomes ==
    { [kind |-> "error", rate |-> r, c401 |-> a, unauth |-> u, bad |-> b,
       invkey |-> k, nomodel |-> m] : r, a, u, b, k, m \in BOOLEAN }

Plain(kind) ==
    [kind |-> kind, rate |-> FALSE, c401 |-> FALSE, unauth |-> FALSE, bad |-> FALSE,
     invkey |-> FALSE, nomodel |-> FALSE]

Outcomes ==
    ErrorOutcomes \cup {Plain("content"), Plain("blank"), Plain("empty"), Plain("malformed")}

RECURSIVE Pow2(_)
Pow2(n) == IF n <= 0 THEN 1 ELSE 2 * Pow2(n - 1)

\* The state of one call of make_llm_request_with_retry (or of the self-test
\* of initialize_client): attempt is the loop variable, requests counts the
\* calls of the service, waits lists the time.sleep arguments.
LlmStart(operation_name) ==
    [pc |-> "attempt", op |-> operation_name, attempt |-> 0, requests |-> 0,
     waits |-> <<>>, result |-> "none"]

\* The retry settings of class Config as shipped (lines 101-103).
Config ==
    [MAX_RETRIES |-> MAX_RETRIES, RETRY_DELAY |-> RETRY_DELAY,
     MAX_RETRY_DELAY |-> MAX_RETRY_DELAY]

\* The end of one iteration of for attempt in range(Config.MAX_RETRIES):
\* the loop runs out after the last attempt and line 881 returns.  cfg holds
\* the values the attributes of Config have.
NextAttemptWith(cfg, l) ==
    IF l.attempt + 1 < cfg.MAX_RETRIES
    THEN [l EXCEPT !.attempt = l.attempt + 1]
    ELSE [l EXCEPT !.pc = "returned", !.attempt = l.attempt + 1,
                   !.result = "LLM error after attempts"]

NextAttempt(l) == NextAttemptWith(Config, l)

\* The retry loop with a rate-limit wait of RETRY_DELAY that does not grow.
MakeLlmRequestStepFlatWait(l, o) ==
    LET l1 == [l EXCEPT !.requests = l.requests + 1]
    IN  CASE o.kind = "content" -> [l1 EXCEPT !.pc = "returned", !.result = "content"]
          [] o.kind = "blank" -> [l1 EXCEPT !.pc = "returned", !.result = "blank"]
          [] o.kind = "empty" ->
                [l1 EXCEPT !.pc = "returned", !.result = "No response generated"]
          [] OTHER ->
                IF o.kind = "error" /\ o.rate
                THEN NextAttempt([l1 EXCEPT !.waits = Append(l.waits, RETRY_DELAY)])
                ELSE IF o.kind = "error" /\ (o.c401 \/ o.unauth)
                THEN [l1 EXCEPT !.pc = "returned", !.result = "Authentication error"]
                ELSE IF o.kind = "error" /\ o.bad
                THEN [l1 EXCEPT !.pc = "returned", !.result = "Request too large"]
                ELSE IF l.attempt < MAX_RETRIES - 1
                THEN NextAttempt([l1 EXCEPT !.waits =
                        Append(l.waits, RETRY_DELAY * Pow2(l.attempt))])
                ELSE NextAttempt(l1)

\* The retry loop with completion.choices[0] outside the try: a response
\* without choices raises IndexError out of the function.
MakeLlmRequestStepUncaught(l, o) ==
    LET l1 == [l EXCEPT !.requests = l.requests + 1]
    IN  CASE o.kind = "content" -> [l1 EXCEPT !.pc = "returned", !.result = "content"]
          [] o.kind = "blank" -> [l1 EXCEPT !.pc = "returned", !.result = "blank"]
          [] o.kind = "empty" ->
                [l1 EXCEPT !.pc = "returned", !.result = "No response generated"]
          [] o.kind = "malformed" -> [l1 EXCEPT !.pc = "raised", !.result = "IndexError"]
          [] OTHER ->
                IF o.kind = "error" /\ o.rate
                THEN NextAttempt([l1 EXCEPT !.waits =
                        Append(l.waits, Min(RETRY_DELAY * Pow2(l.attempt), MAX_RETRY_DELAY))])
                ELSE IF o.kind = "error" /\ (o.c401 \/ o.unauth)
                THEN [l1 EXCEPT !.pc = "returned", !.result = "Authentication error"]
                ELSE IF o.kind = "error" /\ o.bad
                THEN [l1 EXCEPT !.pc = "returned", !.result = "Request too large"]
                ELSE IF l.attempt < MAX_RETRIES - 1
                THEN NextAttempt([l1 EXCEPT !.waits =
                        Append(l.waits, RETRY_DELAY * Pow2(l.attempt))])
                ELSE NextAttempt(l1)

\* Lines 836-881: one iteration of the retry loop, the service answering o,
\* the attributes of Config having the values of cfg.
MakeLlmRequestStepWith(cfg, l, o) ==
    LET l1 == [l EXCEPT !.requests = l.requests + 1]
    IN  CASE o.kind = "content" -> [l1 EXCEPT !.pc = "returned", !.result = "content"]
          [] o.kind = "blank" -> [l1 EXCEPT !.pc = "returned", !.result = "blank"]
          [] o.kind = "empty" ->
                [l1 EXCEPT !.pc = "returned", !.result = "No response generated"]
          [] OTHER ->
                IF o.kind = "error" /\ o.rate
                THEN NextAttemptWith(cfg, [l1 EXCEPT !.waits =
                        Append(l.waits, Min(cfg.RETRY_DELAY * Pow2(l.attempt),
                                            cfg.MAX_RETRY_DELAY))])
                ELSE IF o.kind = "error" /\ (o.c401 \/ o.unauth)
                THEN [l1 EXCEPT !.pc = "returned", !.result = "Authentication error"]
                ELSE IF o.kind = "error" /\ o.bad
                THEN [l1 EXCEPT !.pc = "returned", !.result = "Request too large"]
                ELSE IF l.attempt < cfg.MAX_RETRIES - 1
                THEN NextAttemptWith(cfg, [l1 EXCEPT !.waits =
                        Append(l.waits, cfg.RETRY_DELAY * Pow2(l.attempt))])
                ELSE NextAttemptWith(cfg, l1)

\* The same with the shipped settings.
MakeLlmRequestStep(l, o) == MakeLlmRequestStepWith(Config, l, o)

\* Lines 156-195: one iteration of the connectivity self-test of
\* initialize_client.  pc "returned" is return client, pc "exit" is sys.exit(1).
InitializeClientStep(l, o) ==
    LET l1 == [l EXCEPT !.requests = l.requests + 1]
    IN  IF o.kind \in {"content", "blank"}
        THEN [l1 EXCEPT !.pc = "returned", !.result = "client"]
        ELSE IF o.kind = "error" /\ (o.unauth \/ o.invkey)
        THEN [l1 EXCEPT !.pc = "exit", !.result = "Invalid API key"]
        ELSE IF o.kind = "error" /\ o.nomodel
        THEN [l1 EXCEPT !.pc = "exit", !.result = "Model not available"]
        ELSE IF l.attempt < MAX_RETRIES - 1
        THEN [l1 EXCEPT !.attempt = l.attempt + 1,
                        !.waits = Append(l.waits, RETRY_DELAY * Pow2(l.attempt))]
        ELSE [l1 EXCEPT !.pc = "exit", !.result = "Failed to connect"]

(***************************************************************************)
(* ask_evidence_summary and ask_evidence_sufficiency: the evidence they    *)
(* put in the prompt                                                       *)
(***************************************************************************)
\* Lines 886-888
SummaryEvidence(evidence_content) ==
    IF TextLen(evidence_content) > MAX_TOTAL_CHARS
    THEN smart_truncate_content(evidence_content, MAX_TOTAL_CHARS)
    ELSE evidence_content

\* Lines 929-937.  combined_content is "CONTROL: " + control_desc +
\* "\n\nEVIDENCE: " + evidence_content; len(control_desc) raises TypeError
\* when the description is no string (an empty cell read as NaN).
SufficiencyRaises(desc, evidence_content) ==
    /\ 21 + desc.len + TextLen(evidence_content) > MAX_TOTAL_CHARS
    /\ ~ desc.is_str

SufficiencyEvidence(desc, evidence_content) ==
    IF 21 + desc.len + TextLen(evidence_content) > MAX_TOTAL_CHARS
    THEN LET available_for_evidence == MAX_TOTAL_CHARS - desc.len - 100
         IN  IF available_for_evidence > 500
             THEN smart_truncate_content(evidence_content, available_for_evidence)
             ELSE SliceTo(evidence_content, 500) \o Str("TRUNCATED due to size limits", 0, 30)
    ELSE evidence_content

(***************************************************************************)
(* Spreadsheets: read_xlsx_file and process_large_excel_file               *)
(***************************************************************************)
\* if file_size > 50000 (line 775)
EXCEL_SIZE_THRESHOLD == 50000

\* Largest number of rows of a sheet, and of sheets of a workbook.
MaxRows == 17
MaxSheets == 2

\* A sheet: its rows are 1 .. max_row, those in blank hold no value, and dims
\* tells whether the file states the sheet's dimension (without it ws.max_row
\* is None in read-only mode).
Sheet(max_row, blank, dims) == [max_row |-> max_row, blank |-> blank, dims |-> dims]

Sheets ==
    { Sheet(n, b, TRUE) : n \in 0 .. MaxRows, b \in {{}, {2}} }
      \cup { Sheet(12, {}, FALSE) }

Workbooks == UNION { [1 .. n -> Sheets] : n \in 1 .. MaxSheets }

\* One line of the text a spreadsheet reader returns.
XlsLine(k, sheet, row) == [k |-> k, sheet |-> sheet, row |-> row]

RECURSIVE RowLines(_, _, _, _)
\* The lines of those of the rows from..to of sheet s that are in emit, in order.
RowLines(s, from, to, emit) ==
    IF from > to THEN <<>>
    ELSE (IF from \in emit THEN <<XlsLine("row", s, from)>> ELSE <<>>)
            \o RowLines(s, from + 1, to, emit)

\* Lines 687-693: the rows ws.iter_rows(values_only=True, max_row=15) yields.
IteratedRows(sheet) == Min(15, sheet.max_row)

\* Line 688 evaluates ws.max_row - 5 once row_count has reached 10; with
\* ws.max_row None this raises TypeError.
SheetRaises(sheet) == ~ sheet.dims /\ IteratedRows(sheet) > 10

\* Lines 682-699: the lines of one sheet.  row_count is the 0-based index of
\* the row at line 688 and the number of rows iterated at line 695.
LargeSheetLines(wb, s) ==
    LET ws == wb[s]
        row_count == IteratedRows(ws)
        emit == { r \in 1 .. row_count :
                    /\ (r - 1 < 10 \/ r - 1 >= ws.max_row - 5)
                    /\ r \notin ws.blank }
    IN  <<XlsLine("sheet", s, 0)>>
          \o RowLines(s, 1, row_count, emit)
          \o (IF row_count > 15 THEN <<XlsLine("summary", s, ws.max_row)>> ELSE <<>>)

RECURSIVE LargeLinesFrom(_, _)
LargeLinesFrom(wb, s) ==
    IF s > Len(wb) THEN <<>> ELSE LargeSheetLines(wb, s) \o LargeLinesFrom(wb, s + 1)

\* Lines 672-703.  Any exception becomes the "[Error processing Excel file:
\* ...]" text.
process_large_excel_file(wb) ==
    IF \E s \in 1 .. Len(wb) : SheetRaises(wb[s])
    THEN <<XlsLine("error", 0, 0)>>
    ELSE <<XlsLine("workbook", 0, Len(wb))>> \o LargeLinesFrom(wb, 1)

RECURSIVE AllLinesFrom(_, _)
AllLinesFrom(wb, s) ==
    IF s > Len(wb) THEN <<>>
    ELSE <<XlsLine("sheet", s, 0)>>
            \o RowLines(s, 1, wb[s].max_row, 1 .. wb[s].max_row)
            \o AllLinesFrom(wb, s + 1)

\* Lines 536-548: every row of every sheet (a row without values gives an
\* empty line).
read_xlsx_file(wb) == AllLinesFrom(wb, 1)

\* File sizes around the threshold.
ExcelSizes == {EXCEL_SIZE_THRESHOLD - 1, EXCEL_SIZE_THRESHOLD, EXCEL_SIZE_THRESHOLD + 1}

ExcelInit ==
    /\ \E wb \in Workbooks, file_size \in ExcelSizes :
          xls = [pc |-> "call", wb |-> wb, file_size |-> file_size, file_content |-> <<>>]
    /\ trunc = TruncIdle
    /\ ref = RefIdle
    /\ run = RunIdle
    /\ llm = LlmIdle

\* Lines 773-776: a spreadsheet above the threshold
ExcelLarge ==
    /\ xls.pc = "call"
    /\ xls.file_size > EXCEL_SIZE_THRESHOLD
    /\ xls' = [xls EXCEPT !.pc = "large", !.file_content = process_large_excel_file(xls.wb)]
    /\ UNCHANGED <<trunc, ref, run, llm>>

\* Lines 777-778: any other spreadsheet
ExcelSmall ==
    /\ xls.pc = "call"
    /\ xls.file_size <= EXCEL_SIZE_THRESHOLD
    /\ xls' = [xls EXCEPT !.pc = "small", !.file_content = read_xlsx_file(xls.wb)]
    /\ UNCHANGED <<trunc, ref, run, llm>>

ExcelNext == ExcelLarge \/ ExcelSmall

SpecExcel == ExcelInit /\ [][ExcelNext]_vars

(***************************************************************************)
(* make_llm_request_with_retry on its own: any sequence of outcomes        *)
(***************************************************************************)
\* The two operations the program requests.
OperationNames == {"Evidence Summary", "Evidence Sufficiency"}

\* What is kept of a call besides its locals: the outcome of the latest
\* attempt (last), whether that attempt was followed by a time.sleep (slept),
\* and whether every attempt so far ended in a rate-limit error (only_rate).
RetryStart(operation_name) ==
    LlmStart(operation_name) @@ [last |-> Plain("none"), slept |-> FALSE, only_rate |-> TRUE]

RetryInit ==
    /\ \E operation_name \in OperationNames : llm = RetryStart(operation_name)
    /\ trunc = TruncIdle
    /\ ref = RefIdle
    /\ run = RunIdle
    /\ xls = XlsIdle

\* One iteration of for attempt in range(Config.MAX_RETRIES) (lines 836-879),
\* the service answering o.
RetryAttempt ==
    /\ llm.pc = "attempt"
    /\ \E o \in Outcomes :
          LET l == MakeLlmRequestStep(llm, o)
          IN  llm' = [l EXCEPT !.last = o,
                               !.slept = Len(l.waits) > Len(llm.waits),
                               !.only_rate = llm.only_rate /\ o.kind = "error" /\ o.rate]
    /\ UNCHANGED <<trunc, ref, run, xls>>

RetryNext == RetryAttempt

SpecRetry == RetryInit /\ [][RetryNext]_vars

(***************************************************************************)
(* make_llm_request_with_retry under other settings of Config              *)
(***************************************************************************)
MaxRetriesSetting == 7

\* Values an installation may give MAX_RETRIES, RETRY_DELAY and
\* MAX_RETRY_DELAY (whole seconds).
RetrySettings ==
    { [MAX_RETRIES |-> n, RETRY_DELAY |-> d, MAX_RETRY_DELAY |-> m] :
        n \in 1 .. MaxRetriesSetting, d \in {1, 2}, m \in {4, 60} }

\* The outcomes told apart by the branches of lines 864-879.
SettingsOutcomes ==
    { Plain("content"), Plain("empty"), Plain("malformed"),
      [Plain("error") EXCEPT !.rate = TRUE], [Plain("error") EXCEPT !.c401 = TRUE],
      [Plain("error") EXCEPT !.bad = TRUE], Plain("error") }

SettingsInit ==
    /\ \E cfg \in RetrySettings :
          llm = RetryStart("Evidence Summary") @@ [cfg |-> cfg]
    /\ trunc = TruncIdle
    /\ ref = RefIdle
    /\ run = RunIdle
    /\ xls = XlsIdle

SettingsAttempt ==
    /\ llm.pc = "attempt"
    /\ \E o \in SettingsOutcomes :
          LET l == MakeLlmRequestStepWith(llm.cfg, llm, o)
          IN  llm' = [l EXCEPT !.last = o,
                               !.slept = Len(l.waits) > Len(llm.waits),
                               !.only_rate = llm.only_rate /\ o.kind = "error" /\ o.rate]
    /\ UNCHANGED <<trunc, ref, run, xls>>

SettingsNext == SettingsAttempt

SpecSettings == SettingsInit /\ [][SettingsNext]_vars

(***************************************************************************)
(* The self-test of initialize_client and make_llm_request_with_retry side  *)
(* by side, the service failing the same way for both                       *)
(***************************************************************************)
PolicyInit ==
    /\ llm = [pc |-> "compare", request |-> LlmStart("Evidence Summary"),
              selftest |-> LlmStart("self-test")]
    /\ trunc = TruncIdle
    /\ ref = RefIdle
    /\ run = RunIdle
    /\ xls = XlsIdle

\* The next failure of the service, met by each of the two loops that is
\* still running.
PolicyAttempt ==
    /\ llm.pc = "compare"
    /\ llm.request.pc = "attempt" \/ llm.selftest.pc = "attempt"
    /\ \E o \in ErrorOutcomes :
          llm' = [llm EXCEPT
                    !.request = IF @.pc = "attempt" THEN MakeLlmRequestStep(@, o) ELSE @,
                    !.selftest = IF @.pc = "attempt" THEN InitializeClientStep(@, o) ELSE @]
    /\ UNCHANGED <<trunc, ref, run, xls>>

PolicyNext == PolicyAttempt

SpecPolicy == PolicyInit /\ [][PolicyNext]_vars

(***************************************************************************)
(* The program: the module-level script, then main()                       *)
(***************************************************************************)
\* Running toe_evidence_analysis_enhanced.py (or importing it, as demo.py does
\* before it calls main) executes the module-level script: load the input,
\* initialize_client, the module-level control loop, save.  Then main() runs:
\* initialize_client, load_and_validate_data, process_controls, save.

\* Number of rows of the input dataset.
NumControls == 2

NoRemote == [SAP_GRC_ENABLED |-> FALSE, sap_len |-> 0, JIRA_ENABLED |-> FALSE, jira_len |-> 0]

Desc(len, is_str) == [len |-> len, is_str |-> is_str]

Control(env, desc) == [env |-> env, desc |-> desc]

\* The rows an input dataset is made of: a control with a small evidence file,
\* one without any folder, one whose folder is found by the fuzzy match only,
\* one whose identifier holds the words "No evidence folder found", and one
\* with a file of 9,500 characters and ten full-size files, whose corpus of
\* 159,995 characters is not clipped, and an empty description cell (NaN).
ControlKinds ==
    { Control(Env(Lookup(Name_c1, TRUE, <<RootEntry(Name_c1, TRUE)>>), NoRemote,
                  <<DirEntry(5, TRUE, 50, "ok", 40)>>), Desc(30, TRUE)),
      Control(Env(Lookup(Name_c1, TRUE, <<>>), NoRemote, <<>>), Desc(30, TRUE)),
      Control(Env(Lookup(Name_c1, TRUE, <<RootEntry(<<"c", "1", "_", "o">>, TRUE)>>), NoRemote,
                  <<DirEntry(5, TRUE, 50, "ok", 40)>>), Desc(30, TRUE)),
      Control(Env(Lookup(Name_phrase, TRUE, <<>>), NoRemote, <<>>), Desc(30, TRUE)),
      Control(Env(Lookup(Name_c1, TRUE, <<RootEntry(Name_c1, TRUE)>>), NoRemote,
                  [i \in 1 .. 11 |->
                      IF i = 1 THEN DirEntry(6, TRUE, 9500, "ok", 9500)
                      ELSE DirEntry(6, TRUE, MAX_FILE_CHARS, "ok", MAX_FILE_CHARS)]),
              Desc(3, FALSE)) }

\* "No evidence folder found" in evidence_content.  Of the texts a corpus is
\* made of, only the control identifier can hold these words here.
ContainsPhrase(t, control_name) ==
    \E i \in 1 .. Len(t) :
        /\ t[i].k = "control_name"
        /\ \E q \in 0 .. (Len(control_name) - Len(Name_phrase)) :
              /\ SubSeq(control_name, q + 1, q + Len(Name_phrase)) = Name_phrase
              /\ t[i].a <= q + 1
              /\ q + Len(Name_phrase) <= t[i].b

RunInit ==
    /\ \E rows \in [1 .. NumControls -> ControlKinds] :
          run = [pc |-> "script_load", rows |-> rows, idx |-> 0,
                 evidence_content |-> <<>>, summary |-> "none",
                 evidence_summary_col |-> <<>>, evidence_sufficiency_col |-> <<>>,
                 summary_list |-> <<>>, sufficiency_list |-> <<>>,
                 selftests |-> 0]
    /\ llm = LlmIdle
    /\ trunc = TruncIdle
    /\ ref = RefIdle
    /\ xls = XlsIdle

InScript == run.pc \in {"script_load", "script_client", "script_read", "script_summary",
                        "script_sufficiency"}

\* The row the loop is at.
Row == run.rows[run.idx + 1]

\* read_evidence_folder(control_name) for the row the loop is at; io tells
\* whether os.listdir fails this time.
ReadRow(io) == read_evidence_folder([Row.env EXCEPT !.listdir_raises = io])

\* What a column holds for a row: the fixed no-evidence text, the text of an
\* exception ("error"), or the string make_llm_request_with_retry returned
\* ("generated": a completion or one of its error strings).
Generated == "generated"

\* Lines 979-991: the input is read (sys.exit when it is unreadable or lacks a
\* column), then initialize_client starts: with the placeholder API key it
\* exits at once, otherwise the self-test begins.
ScriptLoad ==
    /\ run.pc = "script_load"
    /\ \/ /\ run' = [run EXCEPT !.pc = "script_client", !.selftests = run.selftests + 1]
          /\ llm' = LlmStart("self-test")
       \/ /\ run' = [run EXCEPT !.pc = "exited"]
          /\ llm' = llm
    /\ UNCHANGED <<trunc, ref, xls>>

\* Lines 156-193: one attempt of the self-test, in the script and in main.
ClientAttempt ==
    /\ run.pc \in {"script_client", "main_client"}
    /\ llm.pc = "attempt"
    /\ \E o \in Outcomes :
          LET l == InitializeClientStep(llm, o)
          IN  /\ llm' = l
              /\ run' = IF l.pc = "exit" THEN [run EXCEPT !.pc = "exited"]
                        ELSE IF l.pc = "returned"
                        THEN [run EXCEPT !.pc = IF run.pc = "script_client"
                                                THEN "script_read" ELSE "main_load"]
                        ELSE run
    /\ UNCHANGED <<trunc, ref, xls>>

\* Lines 1003-1012, read_evidence_folder raises: nothing catches it, the
\* script ends with a traceback.
ScriptReadRaises ==
    /\ run.pc = "script_read"
    /\ run.idx < Len(run.rows)
    /\ \E io \in BOOLEAN : ReadRow(io).pc = "raised"
    /\ run' = [run EXCEPT !.pc = "crashed"]
    /\ UNCHANGED <<trunc, ref, llm, xls>>

\* Lines 1012-1017 and 1032-1033: the corpus holds "No evidence folder found".
ScriptReadNoEvidence ==
    /\ run.pc = "script_read"
    /\ run.idx < Len(run.rows)
    /\ LET r == ReadRow(FALSE)
       IN  /\ r.pc = "returned"
           /\ ContainsPhrase(r.result, Row.env.control_name)
           /\ run' = [run EXCEPT
                        !.evidence_content = <<>>,
                        !.evidence_summary_col = Append(@, "No evidence folder found"),
                        !.evidence_sufficiency_col = Append(@, "CONCLUSION: NO"),
                        !.idx = run.idx + 1]
    /\ UNCHANGED <<trunc, ref, llm, xls>>

\* Lines 1012-1021: any other corpus goes to ask_evidence_summary.
ScriptReadEvidence ==
    /\ run.pc = "script_read"
    /\ run.idx < Len(run.rows)
    /\ LET r == ReadRow(FALSE)
       IN  /\ r.pc = "returned"
           /\ ~ ContainsPhrase(r.result, Row.env.control_name)
           /\ run' = [run EXCEPT !.pc = "script_summary", !.evidence_content = r.result,
                                 !.summary = "none"]
           /\ llm' = LlmStart("Evidence Summary")
    /\ UNCHANGED <<trunc, ref, xls>>

\* The summary request without waiting for its retries: after any attempt the
\* sufficiency request is started.
SummaryAttemptNoWait ==
    /\ run.pc \in {"script_summary", "main_summary"}
    /\ llm.pc = "attempt"
    /\ \E o \in Outcomes :
          LET l == MakeLlmRequestStep(llm, o)
          IN  /\ llm' = LlmStart("Evidence Sufficiency")
              /\ run' = [run EXCEPT !.summary = l.result,
                                    !.pc = IF run.pc = "script_summary"
                                           THEN "script_sufficiency"
                                           ELSE "main_sufficiency"]
    /\ UNCHANGED <<trunc, ref, xls>>

\* One attempt of the summary request (lines 1021 and 1178).  When it returns,
\* ask_evidence_sufficiency is called: in the script its len(control_desc) can
\* raise, which ends the script; process_controls passes str(...).
SummaryAttempt ==
    /\ run.pc \in {"script_summary", "main_summary"}
    /\ llm.pc = "attempt"
    /\ \E o \in Outcomes :
          LET l == MakeLlmRequestStep(llm, o)
          IN  IF l.pc # "returned"
              THEN /\ llm' = l
                   /\ run' = run
              ELSE IF run.pc = "script_summary"
                         /\ SufficiencyRaises(Row.desc, run.evidence_content)
              THEN /\ llm' = l
                   /\ run' = [run EXCEPT !.pc = "crashed", !.summary = l.result]
              ELSE /\ llm' = LlmStart("Evidence Sufficiency")
                   /\ run' = [run EXCEPT !.summary = l.result,
                                         !.pc = IF run.pc = "script_summary"
                                                THEN "script_sufficiency"
                                                ELSE "main_sufficiency"]
    /\ UNCHANGED <<trunc, ref, xls>>

\* One attempt of the sufficiency request (lines 1025 and 1179).  When it
\* returns, both values are appended (lines 1032-1033, 1181-1182).
SufficiencyAttempt ==
    /\ run.pc \in {"script_sufficiency", "main_sufficiency"}
    /\ llm.pc = "attempt"
    /\ \E o \in Outcomes :
          LET l == MakeLlmRequestStep(llm, o)
          IN  /\ llm' = IF l.pc = "returned" THEN LlmIdle ELSE l
              /\ run' = IF l.pc # "returned" THEN run
                        ELSE IF run.pc = "script_sufficiency"
                        THEN [run EXCEPT
                                !.pc = "script_read",
                                !.evidence_content = <<>>,
                                !.summary = "none",
                                !.evidence_summary_col = Append(@, Generated),
                                !.evidence_sufficiency_col = Append(@, Generated),
                                !.idx = run.idx + 1]
                        ELSE [run EXCEPT
                                !.pc = "main_read",
                                !.evidence_content = <<>>,
                                !.summary = "none",
                                !.summary_list = Append(@, Generated),
                                !.sufficiency_list = Append(@, Generated),
                                !.idx = run.idx + 1]
    /\ UNCHANGED <<trunc, ref, xls>>

\* Lines 1036-1084 and 1287-1288, 1261: the loop is over, the results are
\* saved, and main() starts with its own initialize_client.
ScriptFinish ==
    /\ run.pc = "script_read"
    /\ run.idx = Len(run.rows)
    /\ run' = [run EXCEPT !.pc = "main_client", !.idx = 0,
                          !.selftests = run.selftests + 1]
    /\ llm' = LlmStart("self-test")
    /\ UNCHANGED <<trunc, ref, xls>>

\* Line 1264: load_and_validate_data (sys.exit(1) when it fails).
MainLoad ==
    /\ run.pc = "main_load"
    /\ \/ run' = [run EXCEPT !.pc = "main_read", !.idx = 0]
       \/ run' = [run EXCEPT !.pc = "exited"]
    /\ llm' = LlmIdle
    /\ UNCHANGED <<trunc, ref, xls>>

\* Lines 1173-1175 and 1186-1189: read_evidence_folder raises inside the try.
MainReadRaises ==
    /\ run.pc = "main_read"
    /\ run.idx < Len(run.rows)
    /\ \E io \in BOOLEAN : ReadRow(io).pc = "raised"
    /\ run' = [run EXCEPT !.summary_list = Append(@, "Error during analysis"),
                          !.sufficiency_list = Append(@, "Error during analysis"),
                          !.idx = run.idx + 1]
    /\ UNCHANGED <<trunc, ref, llm, xls>>

\* Lines 1173-1178: whatever read_evidence_folder returns goes to
\* ask_evidence_summary.
MainReadEvidence ==
    /\ run.pc = "main_read"
    /\ run.idx < Len(run.rows)
    /\ LET r == ReadRow(FALSE)
       IN  /\ r.pc = "returned"
           /\ run' = [run EXCEPT !.pc = "main_summary", !.evidence_content = r.result,
                                 !.summary = "none"]
           /\ llm' = LlmStart("Evidence Summary")
    /\ UNCHANGED <<trunc, ref, xls>>

\* Lines 1191-1197 and 1270: the results are saved and main returns.
MainFinish ==
    /\ run.pc = "main_read"
    /\ run.idx = Len(run.rows)
    /\ run' = [run EXCEPT !.pc = "done"]
    /\ UNCHANGED <<trunc, ref, llm, xls>>

RunNext ==
    \/ ScriptLoad
    \/ ClientAttempt
    \/ ScriptReadRaises
    \/ ScriptReadNoEvidence
    \/ ScriptReadEvidence
    \/ SummaryAttempt
    \/ SufficiencyAttempt
    \/ ScriptFinish
    \/ MainLoad
    \/ MainReadRaises
    \/ MainReadEvidence
    \/ MainFinish

Init == RunInit
Next == RunNext
Spec == Init /\ [][Next]_vars

(***************************************************************************)
(* Views of a truncation result                                            *)
(***************************************************************************)
\* The segments of t that come from the source text kind k.
SegsOf(t, k) == SelectSeq(t, LAMBDA s : s.k = k)

\* Number of characters of t that come from the source text kind k.
CharsOf(t, k) == TextLen(SegsOf(t, k))

\* Position in t of the first segment of kind k (0 when there is none).
FirstIndexOf(t, k) ==
    IF \E i \in 1 .. Len(t) : t[i].k = k
    THEN CHOOSE i \in 1 .. Len(t) : t[i].k = k /\ \A j \in 1 .. (i - 1) : t[j].k # k
    ELSE 0

\* t holds the whole elision marker, from its first to its last character.
HasCompleteMarker(t) ==
    \E i \in 1 .. Len(t) :
        /\ t[i].k = "TRUNCATED"
        /\ t[i].a = 1
        /\ t[i].b = 43 + Digits(t[i].id)

\* t holds the whole elision marker and at least one character after it.
HasMarkerThenTail(t) ==
    \E i \in 1 .. Len(t) :
        /\ t[i].k = "TRUNCATED"
        /\ t[i].a = 1
        /\ t[i].b = 43 + Digits(t[i].id)
        /\ i < Len(t)

\* The number N the marker states.
StatedRemoved(t) == t[FirstIndexOf(t, "TRUNCATED")].id

\* The segments of kind k are taken from increasing, non-overlapping positions.
InOriginalOrder(t, k) ==
    LET cs == SegsOf(t, k)
    IN  \A i \in 1 .. (Len(cs) - 1) : cs[i].b < cs[i + 1].a

\* Whatever of kind k stands before the marker is a prefix of the source.
HeadIsPrefix(t, k) ==
    \A i \in 1 .. Len(t) :
        (t[i].k = k /\ \A j \in 1 .. i : t[j].k # "TRUNCATED") => (i = 1 /\ t[i].a = 1)

TruncDone == trunc.pc = "done"
TruncOver == TruncDone /\ TextLen(trunc.content) > trunc.max_chars

\* The caps the pipeline passes to smart_truncate_content: MAX_FILE_CHARS
\* (line 794), MAX_TOTAL_CHARS (line 818) and remaining_chars - 50 with
\* 100 < remaining_chars <= MAX_TOTAL_CHARS (lines 798-801).
PipelineCap(c) ==
    \/ c = MAX_FILE_CHARS
    \/ c = MAX_TOTAL_CHARS
    \/ (c > 50 /\ c <= MAX_TOTAL_CHARS - 50)

(***************************************************************************)
(* Claims about smart_truncate_content                                     *)
(***************************************************************************)
\* C7: for every cap C >= 1 and every text longer than C,
\* smart_truncate_content returns a text of at most C characters.
C7_ResultWithinCap ==
    (TruncOver /\ trunc.max_chars >= 1) => TextLen(trunc.result) <= trunc.max_chars

\* C7 witness: a text longer than the cap whose head + marker + tail exceeded
\* the cap and was re-clipped to exactly the cap.
C7_Witness ==
    /\ TruncOver
    /\ trunc.max_chars >= 1
    /\ TextLen(SmartTruncateNoClip(trunc.content, trunc.max_chars)) > trunc.max_chars
    /\ TextLen(trunc.result) = trunc.max_chars

\* C8 (as claimed): for every cap the pipeline passes and every text longer
\* than it, the result holds the complete marker followed by a tail segment.
C8_MarkerAlwaysComplete ==
    (TruncOver /\ PipelineCap(trunc.max_chars)) => HasMarkerThenTail(trunc.result)

\* C9 (as claimed): the number stated in the marker equals the number of
\* characters of the original that are absent from the result.
C9_StatedCountIsElidedCount ==
    (TruncOver /\ HasCompleteMarker(trunc.result))
        => StatedRemoved(trunc.result)
             = TextLen(trunc.content) - CharsOf(trunc.result, "content")

\* C10: for every cap C >= 1 and every text longer than C, the result without
\* the marker is a prefix of the original followed by characters taken from
\* later, non-overlapping positions of the original (head + tail is a
\* subsequence of the original in original order), caps below 4 included.
C10_HeadTailSubsequence ==
    (TruncOver /\ trunc.max_chars >= 1) =>
        /\ \A i \in 1 .. Len(trunc.result) : trunc.result[i].k \in {"content", "TRUNCATED"}
        /\ Len(SegsOf(trunc.result, "content")) <= 2
        /\ InOriginalOrder(trunc.result, "content")
        /\ HeadIsPrefix(trunc.result, "content")
        /\ \A i \in 1 .. Len(trunc.result) :
              trunc.result[i].k = "content" =>
                  (1 <= trunc.result[i].a /\ trunc.result[i].b <= TextLen(trunc.content))

\* C10 witness: a truncated result that keeps a head, the marker and a tail.
C10_Witness ==
    /\ TruncOver
    /\ trunc.max_chars >= 1
    /\ Len(SegsOf(trunc.result, "content")) = 2
    /\ HasCompleteMarker(trunc.result)

SpecBudget == (TruncInit \/ FolderInit) /\ [][TruncNext \/ FolderNext]_vars

(***************************************************************************)
(* Claims about read_evidence_folder                                       *)
(***************************************************************************)
RefEnded == ref.pc \in {"returned", "raised"}
RefReturned == ref.pc = "returned"
RefStarted == ref.pc \notin {"idle", "resolve"}

\* The returned string is the "No evidence found for control: ..." sentinel.
IsSentinel(t) == t # <<>> /\ t[1].k = "No evidence found for control: "

\* The folder the lookup of section 4.3 step 1 arrives at: the exact folder,
\* else the first subfolder of the root whose name contains the identifier.
FoundFolder(env) ==
    LET clean_name == CleanName(env.control_name)
        fuzzy == FirstFuzzy(env, clean_name)
    IN  IF IsDir(env, JoinRoot(clean_name)) THEN <<JoinRoot(clean_name)>>
        ELSE IF fuzzy # 0 THEN <<JoinRoot(env.root[fuzzy].name)>>
        ELSE <<>>

\* At least one evidence source exists: a non-empty remote text, or a regular
\* file in the folder found.
SourcesFound(env) ==
    \/ env.SAP_GRC_ENABLED /\ env.sap_len > 0
    \/ env.JIRA_ENABLED /\ env.jira_len > 0
    \/ /\ FoundFolder(env) # <<>>
       /\ \E i \in 1 .. Len(ListDir(env, FoundFolder(env)[1])) :
             ListDir(env, FoundFolder(env)[1])[i].isfile

\* C3 (as claimed): when the file system itself does not fail,
\* read_evidence_folder returns, and what it returns is the sentinel exactly
\* when zero sources were found.
C3_SentinelIffNoSources ==
    (RefEnded /\ ~ ref.env.listdir_raises)
        => (RefReturned /\ (IsSentinel(ref.result) <=> ~ SourcesFound(ref.env)))

\* C4 (as claimed): the returned corpus has at most MAX_TOTAL_CHARS characters.
C4_CorpusWithinTotalCap ==
    RefReturned => TextLen(ref.result) <= MAX_TOTAL_CHARS

\* C5: every file body appended to contents has at most MAX_FILE_CHARS
\* characters, whatever the decoder returned.
C5_BodyWithinFileCap ==
    RefStarted =>
        \A i \in 1 .. Len(ref.contents) :
            ref.contents[i].kind = "body" => TextLen(ref.contents[i].text) <= MAX_FILE_CHARS

\* C5 witness: a file whose decoded text was longer than MAX_FILE_CHARS has its
\* body among the contents.
C5_Witness ==
    /\ RefStarted
    /\ \E i \in 1 .. Len(ref.log) :
          /\ TextLen(ref.log[i].decoded) > MAX_FILE_CHARS
          /\ \E j \in 1 .. Len(ref.contents) :
                ref.contents[j].kind = "body" /\ ref.contents[j].file = ref.log[i].file

\* C6: a text no longer than the cap comes back from smart_truncate_content
\* unchanged, and read_evidence_folder neither changes a file's text nor sets
\* the truncated flag on account of the per-file cap when the decoded text has
\* at most MAX_FILE_CHARS characters.
C6_ShortTextUnchanged ==
    /\ (TruncDone /\ TextLen(trunc.content) <= trunc.max_chars)
          => trunc.result = trunc.content
    /\ RefStarted =>
          /\ \A i \in 1 .. Len(ref.log) :
                TextLen(ref.log[i].decoded) <= MAX_FILE_CHARS =>
                    /\ ~ ref.log[i].capped
                    /\ ref.log[i].budgeted = ref.log[i].decoded
                    /\ ref.log[i].fit = "fits" =>
                          \E j \in 1 .. Len(ref.contents) :
                              /\ ref.contents[j].kind = "body"
                              /\ ref.contents[j].file = ref.log[i].file
                              /\ ref.contents[j].text = ref.log[i].decoded
          /\ (ref.truncated /\ ref.pc # "returned") =>
                \E i \in 1 .. Len(ref.log) :
                    \/ TextLen(ref.log[i].decoded) > MAX_FILE_CHARS
                    \/ ref.log[i].fit # "fits"

\* C6 witness: a file whose decoded text has exactly MAX_FILE_CHARS characters
\* was appended as it is, and the truncated flag is not set.
C6_Witness ==
    /\ RefStarted
    /\ ~ ref.truncated
    /\ \E i \in 1 .. Len(ref.log) :
          /\ TextLen(ref.log[i].decoded) = MAX_FILE_CHARS
          /\ ref.log[i].fit = "fits"

\* The files that have a header or a body (or a part of one) in the text t.
FilesIn(t) ==
    { t[i].id : i \in { j \in 1 .. Len(t) :
                          t[j].k \in {"header", "file", "unsupported", "error"} } }

\* The files the loop has reached, in the order it reached them.
Reached == [i \in 1 .. Len(ref.log) |-> ref.log[i].file]

\* The byte size of the file with index f in the listing of the folder.
SizeOf(f) == ListDir(ref.env, ref.folder)[f].size

InFileLoop == ref.pc \in {"loop", "finish", "returned"} /\ ref.folder_missing = "False"

\* C11: the files are reached in ascending byte-size order; the loop goes on
\* only after a file that fitted the remaining budget, so the first file that
\* does not fit is the last one reached; and no file ordered after it has a
\* header or a body in contents or in the returned corpus.
C11_AscendingStopAtFirstMisfit ==
    InFileLoop =>
        /\ Len(Reached) <= Len(ref.files)
        /\ \A i \in 1 .. Len(Reached) : Reached[i] = ref.files[i]
        /\ \A i \in 1 .. Len(ref.files) - 1 :
              SizeOf(ref.files[i]) <= SizeOf(ref.files[i + 1])
        /\ \A i \in 1 .. Len(ref.log) :
              ref.log[i].fit # "fits" => (i = Len(ref.log) /\ ref.pc # "loop")
        /\ \A i \in 1 .. Len(ref.contents) :
              ref.contents[i].kind \in {"header", "body"} =>
                  \E j \in 1 .. Len(Reached) : Reached[j] = ref.contents[i].file
        /\ ref.pc = "returned" =>
              FilesIn(ref.result) \subseteq { Reached[j] : j \in 1 .. Len(Reached) }

\* C11 witness: the listing gives the larger file first, the smaller one is
\* reached first and does not fit what the remote evidence left of the
\* budget, and the larger one, ordered after it, is not reached.
C11_Witness ==
    /\ ref.pc = "returned"
    /\ ref.folder_missing = "False"
    /\ Len(ref.files) = 2
    /\ ref.files[1] > ref.files[2]
    /\ Len(ref.log) = 1
    /\ ref.log[1].fit # "fits"
    /\ FilesIn(ref.result) = {ref.files[1]}

\* No folder has the normalized identifier as its name, and a subfolder of the
\* evidence root has it as a case-insensitive part of its name.
FuzzyOnly(env) ==
    /\ ~ IsDir(env, JoinRoot(CleanName(env.control_name)))
    /\ FirstFuzzy(env, CleanName(env.control_name)) # 0

\* C12 (as claimed): when only the fuzzy match finds a folder,
\* read_evidence_folder returns; the folder it read is the matching one, and
\* when that folder holds a regular file the result is not the no-evidence
\* sentinel.
C12_FuzzyMatchResolves ==
    (RefEnded /\ FuzzyOnly(ref.env)) =>
        /\ RefReturned
        /\ ref.folder = FoundFolder(ref.env)[1]
        /\ SourcesFound(ref.env) => ~ IsSentinel(ref.result)

\* The listing entry of the file with index f.
EntryOf(f) == ListDir(ref.env, ref.folder)[f]

\* C19: every file the loop reaches has exactly one text before budgeting:
\* what its decoder returned, or the "[Error reading ...]" text when the
\* decoder raised, or the "[Unsupported file type: ...]" text for an unknown
\* extension; no file is reached twice; and the loop ends before the last file
\* only on account of the budget, never on account of a decode failure.
C19_OneTextPerFileFailuresGoOn ==
    InFileLoop =>
        /\ \A i \in 1 .. Len(ref.log) :
              LET f == ref.log[i].file
                  text == ref.log[i].decoded
              IN  /\ Len(text) <= 1
                  /\ EntryOf(f).outcome = "ok" => text = Str("file", f, EntryOf(f).declen)
                  /\ EntryOf(f).outcome = "raise" =>
                        (Len(text) = 1 /\ text[1].k = "error" /\ text[1].id = f)
                  /\ EntryOf(f).outcome = "unsupported" =>
                        (Len(text) = 1 /\ text[1].k = "unsupported" /\ text[1].id = f)
                  /\ \A j \in 1 .. Len(ref.log) : ref.log[j].file = f => j = i
        /\ (ref.pc \in {"finish", "returned"} /\ Len(ref.log) < Len(ref.files)) =>
              \/ ref.total_chars >= MAX_TOTAL_CHARS
              \/ Len(ref.log) > 0 /\ ref.log[Len(ref.log)].fit # "fits"

\* C19 witness: the decoder of the first file raised, its diagnostic text is
\* in the corpus, and the file after it was processed too.
C19_Witness ==
    /\ ref.pc = "returned"
    /\ ref.folder_missing = "False"
    /\ Len(ref.log) = 2
    /\ EntryOf(ref.log[1].file).outcome = "raise"
    /\ EntryOf(ref.log[2].file).outcome = "ok"
    /\ \E i \in 1 .. Len(ref.result) : ref.result[i].k = "error"
    /\ \E i \in 1 .. Len(ref.result) : ref.result[i].k = "file"

\* The returned corpus starts with the "[WARNING: Evidence content was
\* truncated ..." banner.
HasBanner(t) == t # <<>> /\ t[1].k = "WARNING"

\* The text t holds the whole decoded text of the file with index f.
HoldsFullText(t, f) ==
    LET text == DecodeFile(f, EntryOf(f))
    IN  text = <<>> \/ \E i \in 1 .. Len(t) : t[i] = text[1]

\* Some truncation occurred: a file was clipped to the per-file cap, a file was
\* clipped or dropped on account of the total cap, a file was skipped, or the
\* joined corpus was clipped.
TruncationOccurred ==
    \/ \E i \in 1 .. Len(ref.log) : ref.log[i].capped \/ ref.log[i].fit # "fits"
    \/ Len(ref.log) < Len(ref.files)
    \/ TextLen(JoinItems(ref.contents)) > MAX_TOTAL_CHARS

\* C20 (as claimed): a returned corpus for which any truncation occurred
\* starts with the warning banner, and a returned corpus without the banner
\* holds the full decoded text of every enumerated file.
C20_BannerWheneverTruncated ==
    (ref.pc = "returned" /\ ref.folder_missing # "unbound") =>
        /\ TruncationOccurred => HasBanner(ref.result)
        /\ ~ HasBanner(ref.result) =>
              \A i \in 1 .. Len(ref.files) : HoldsFullText(ref.result, ref.files[i])

\* The sources counted in file_count that should be: the remote texts and the
\* files that were not dropped.
SourcesKept ==
    Len(SelectSeq(ref.contents, LAMBDA c : c.kind \in {"sap", "jira"}))
      + Len(SelectSeq(ref.log, LAMBDA n : n.fit # "dropped"))

\* C23 (as claimed): a file whose budgeted text does not fit a remaining
\* budget of at most 100 characters is dropped: contents holds neither a
\* header nor a body of it, file_count does not count it, and it is the last
\* file the loop reaches.
C23_DroppedFileLeavesNoTrace ==
    InFileLoop =>
        \A i \in 1 .. Len(ref.log) :
            ref.log[i].fit = "dropped" =>
                /\ \A j \in 1 .. Len(ref.contents) :
                      ref.contents[j].kind \in {"header", "body"}
                          => ref.contents[j].file # ref.log[i].file
                /\ ref.file_count = SourcesKept
                /\ i = Len(ref.log)
                /\ ref.pc # "loop"

\* The folder read_evidence_folder lists with os.listdir(folder) at line 749.
Enumerates == InFileLoop

\* C26 (as claimed): the folder whose files are enumerated is a direct
\* subfolder of the evidence root, never the root itself or its parent.
C26_EnumeratesSubfolderOnly ==
    Enumerates => ref.folder.kind = "child"

\* The rows that have a result: in the columns of the module-level loop, and
\* in the lists of process_controls.
ResultsOf(k) ==
    (IF k <= Len(run.evidence_summary_col) THEN 1 ELSE 0)
      + (IF k <= Len(run.summary_list) THEN 1 ELSE 0)

\* Every segment of the text sub is in the text t, whole.
HoldsWhole(t, sub) ==
    \A n \in 1 .. Len(sub) : \E j \in 1 .. Len(t) : t[j] = sub[n]

\* The total cap ended the file loop: at a file that did not fit, or at the
\* top of the loop with files left.
StoppedByTotalCap ==
    /\ ref.pc = "returned"
    /\ ref.folder_missing = "False"
    /\ \/ Len(ref.log) > 0 /\ ref.log[Len(ref.log)].fit # "fits"
       \/ Len(ref.log) < Len(ref.files)

\* C28 (as claimed): when the total cap stopped the collection, every file
\* that was processed before the stopping point is in the returned corpus with
\* its header and the whole of its budgeted text.
C28_EarlierFilesStayWhole ==
    StoppedByTotalCap =>
        \A i \in 1 .. Len(ref.log) :
            ref.log[i].fit = "fits" =>
                /\ \A j \in 1 .. Len(ref.contents) :
                      (ref.contents[j].kind = "header" /\ ref.contents[j].file = ref.log[i].file)
                          => HoldsWhole(ref.result, ref.contents[j].text)
                /\ HoldsWhole(ref.result, ref.log[i].budgeted)

(***************************************************************************)
(* Claims about the spreadsheet readers                                    *)
(***************************************************************************)
\* The text holds the line of row r of sheet s.
HasRow(t, s, r) == \E i \in 1 .. Len(t) : t[i] = XlsLine("row", s, r)

\* C21 (as claimed): for a spreadsheet above the size threshold that is read
\* without an error, the text holds, for each sheet, every row with values
\* among the first 10 and among the last 5 rows of the sheet, and for each
\* sheet with more than 15 rows (rows are left out) the note stating its row
\* count.
C21_HeadTailRowsAndNote ==
    (xls.pc = "large" /\ \A s \in 1 .. Len(xls.wb) : ~ SheetRaises(xls.wb[s])) =>
        \A s \in 1 .. Len(xls.wb) :
            LET ws == xls.wb[s]
            IN  /\ \A r \in 1 .. ws.max_row :
                      (r \notin ws.blank /\ (r <= 10 \/ r > ws.max_row - 5))
                          => HasRow(xls.file_content, s, r)
                /\ ws.max_row > 15 =>
                      \E i \in 1 .. Len(xls.file_content) :
                          xls.file_content[i] = XlsLine("summary", s, ws.max_row)

(***************************************************************************)
(* Claims about make_llm_request_with_retry                                *)
(***************************************************************************)
RetryRunning == llm.pc \in {"attempt", "returned", "raised"} /\ llm.requests > 0

\* The error of an attempt is an authentication / authorization failure: its
\* text holds "401" or "unauthorized".
AuthFailure(o) == o.kind = "error" /\ (o.c401 \/ o.unauth)

\* The error of an attempt is a bad request: its text holds "400" or "bad request".
BadRequest(o) == o.kind = "error" /\ o.bad

\* C13 (as claimed): an attempt that fails with an authentication error or a
\* bad-request error is the last one, no wait follows it, the call returns a
\* descriptive error string, and when it is the first failure of the call
\* exactly one request was made; whatever else the error text holds.
C13_AuthOrBadRequestNotRetried ==
    (RetryRunning /\ (AuthFailure(llm.last) \/ BadRequest(llm.last))) =>
        /\ llm.pc = "returned"
        /\ ~ llm.slept
        /\ llm.result \in {"Authentication error", "Request too large"}
        /\ llm.waits = <<>> => llm.requests = 1

\* C14: while every attempt fails with a rate-limit error the call goes on;
\* it ends after exactly MAX_RETRIES requests with the "LLM error after N
\* attempts" string; every wait is at most MAX_RETRY_DELAY, and each wait is
\* longer than the one before it unless both are MAX_RETRY_DELAY.
C14_RateLimitBackoff ==
    (RetryRunning /\ llm.only_rate) =>
        /\ llm.requests <= MAX_RETRIES
        /\ llm.pc = "attempt" <=> llm.requests < MAX_RETRIES
        /\ llm.pc = "returned" <=> llm.requests = MAX_RETRIES
        /\ llm.pc = "returned" => llm.result = "LLM error after attempts"
        /\ Len(llm.waits) = llm.requests
        /\ \A i \in 1 .. Len(llm.waits) : llm.waits[i] <= MAX_RETRY_DELAY
        /\ \A i \in 1 .. Len(llm.waits) - 1 :
              \/ llm.waits[i] < llm.waits[i + 1]
              \/ llm.waits[i] = MAX_RETRY_DELAY /\ llm.waits[i + 1] = MAX_RETRY_DELAY

\* C14 witness: MAX_RETRIES rate-limit errors in a row, and the call returned.
C14_Witness ==
    /\ RetryRunning
    /\ llm.only_rate
    /\ llm.pc = "returned"
    /\ llm.requests = MAX_RETRIES
    /\ Len(llm.waits) >= MAX_RETRIES - 1

\* The strings make_llm_request_with_retry returns: the completion (stripped,
\* possibly empty), "No response generated", or one of its error strings.
ReturnedStrings ==
    {"content", "blank", "No response generated", "Authentication error",
     "Request too large", "LLM error after attempts"}

\* C15: whatever the service answers, no exception leaves the call: it is
\* either about to make one of at most MAX_RETRIES requests, or it has
\* returned a string.
C15_AlwaysReturnsString ==
    RetryRunning =>
        /\ llm.pc \in {"attempt", "returned"}
        /\ llm.requests <= MAX_RETRIES
        /\ llm.pc = "attempt" => llm.attempt < MAX_RETRIES
        /\ llm.pc = "returned" => llm.result \in ReturnedStrings

\* C15 witness: the last of MAX_RETRIES attempts got a response without
\* choices, and the call returned its error string.
C15_Witness ==
    /\ RetryRunning
    /\ llm.pc = "returned"
    /\ llm.last.kind = "malformed"
    /\ llm.requests = MAX_RETRIES
    /\ llm.result = "LLM error after attempts"

\* C27 (as claimed): no wait follows the last allowed attempt, so one call
\* sleeps at most MAX_RETRIES - 1 times, on the rate-limit path as on the
\* transient one.
C27_NoWaitAfterLastAttempt ==
    RetryRunning => Len(llm.waits) <= MAX_RETRIES - 1

\* C24 (as claimed): whatever values MAX_RETRIES, RETRY_DELAY and
\* MAX_RETRY_DELAY have, every wait of a call, after a rate-limit error or
\* after another transient error, is at most MAX_RETRY_DELAY.
C24_EveryWaitWithinMaxDelay ==
    RetryRunning =>
        \A i \in 1 .. Len(llm.waits) : llm.waits[i] <= llm.cfg.MAX_RETRY_DELAY

\* C25 (as claimed): met with the same failures, the self-test of
\* initialize_client and make_llm_request_with_retry have made the same
\* number of requests with the same waits, and one has ended exactly when the
\* other has.
C25_SelfTestSamePolicy ==
    llm.pc = "compare" =>
        /\ llm.selftest.requests = llm.request.requests
        /\ llm.selftest.waits = llm.request.waits
        /\ llm.selftest.pc = "attempt" <=> llm.request.pc = "attempt"

\* The service answered the attempt: with a completion, or with an empty one.
Answered(o) == o.kind \in {"content", "blank", "empty"}

\* C29 (as claimed): whatever the service answers, a call makes at most
\* MAX_RETRIES requests, and no request follows one that was answered or
\* that failed with an authentication or bad-request error.
C29_BoundedAndStopsAtTerminal ==
    RetryRunning =>
        /\ llm.requests <= MAX_RETRIES
        /\ (Answered(llm.last) \/ AuthFailure(llm.last) \/ BadRequest(llm.last))
              => llm.pc # "attempt"

(***************************************************************************)
(* Claims about the orchestration loops                                    *)
(***************************************************************************)
ScriptLoopOver == run.pc \in {"main_client", "main_load", "main_read", "main_summary",
                              "main_sufficiency", "done"}

Requesting == run.pc \in {"script_summary", "script_sufficiency",
                          "main_summary", "main_sufficiency"}

\* C1 (as claimed): no failure of a single control aborts the batch, and each
\* loop ends with one summary value and one sufficiency value per input row.
C1_FailingControlNeverAborts ==
    /\ run.pc # "crashed"
    /\ ScriptLoopOver =>
          /\ Len(run.evidence_summary_col) = Len(run.rows)
          /\ Len(run.evidence_sufficiency_col) = Len(run.rows)
    /\ run.pc = "done" =>
          /\ Len(run.summary_list) = Len(run.rows)
          /\ Len(run.sufficiency_list) = Len(run.rows)

\* C2 (as claimed): for a control without any evidence source no request is
\* made to the generation service, and its row holds the fixed no-evidence
\* texts.
C2_NoEvidenceNoRequests ==
    /\ Requesting => SourcesFound(Row.env)
    /\ run.pc # "idle" =>
          /\ \A k \in 1 .. Len(run.evidence_summary_col) :
                ~ SourcesFound(run.rows[k].env) =>
                    /\ run.evidence_summary_col[k] = "No evidence folder found"
                    /\ run.evidence_sufficiency_col[k] = "CONCLUSION: NO"
          /\ \A k \in 1 .. Len(run.summary_list) :
                ~ SourcesFound(run.rows[k].env) =>
                    /\ run.summary_list[k] = "No evidence folder found"
                    /\ run.sufficiency_list[k] = "CONCLUSION: NO"

\* A self-test of initialize_client is under way.
SelfTesting == run.pc \in {"script_client", "main_client"}

\* Some control has been taken up by one of the loops: a row has its values,
\* or the loop is at work on its first row's evidence.
ControlTouched ==
    \/ Len(run.evidence_summary_col) > 0
    \/ Len(run.summary_list) > 0
    \/ run.pc \in {"script_summary", "script_sufficiency", "main_summary", "main_sufficiency"}

\* C16 (as claimed): in one run initialize_client is entered at most once,
\* exactly once when the run completes, and while a self-test is under way no
\* control has been taken up.
C16_SelfTestOnceBeforeControls ==
    run.pc # "idle" =>
        /\ run.selftests <= 1
        /\ run.pc = "done" => run.selftests = 1
        /\ SelfTesting => ~ ControlTouched

\* The run ended with the sys.exit(1) of initialize_client.
SelfTestExit == run.pc = "exited" /\ llm.pc = "exit"

\* C17 (as claimed): when a self-test ends the run, no control has been taken
\* up before: no row has values and no evidence was read.
C17_SelfTestExitBeforeAnyControl ==
    SelfTestExit =>
        /\ Len(run.evidence_summary_col) = 0
        /\ Len(run.evidence_sufficiency_col) = 0
        /\ Len(run.summary_list) = 0
        /\ Len(run.sufficiency_list) = 0
        /\ run.idx = 0

ReadingRow == run.pc \in {"script_read", "main_read"}
RequestingSummary == run.pc \in {"script_summary", "main_summary"}
RequestingSufficiency == run.pc \in {"script_sufficiency", "main_sufficiency"}

\* C18: in each loop the rows are taken in order and a row's values are
\* appended when its sufficiency request has returned, so the values present
\* are those of the rows before the current one; between two rows no request
\* is under way; the summary request starts with the corpus
\* read_evidence_folder returned for the row; and the sufficiency request
\* starts only when the summary request has returned its string.
C18_OneControlAtATimeInOrder ==
    (ReadingRow \/ RequestingSummary \/ RequestingSufficiency) =>
        /\ InScript =>
              /\ Len(run.evidence_summary_col) = run.idx
              /\ Len(run.evidence_sufficiency_col) = run.idx
              /\ Len(run.summary_list) = 0
        /\ ~ InScript =>
              /\ Len(run.summary_list) = run.idx
              /\ Len(run.sufficiency_list) = run.idx
        /\ ReadingRow => llm.pc # "attempt"
        /\ RequestingSummary =>
              /\ run.idx < Len(run.rows)
              /\ llm.pc = "attempt"
              /\ llm.op = "Evidence Summary"
              /\ run.summary = "none"
              /\ run.evidence_content = ReadRow(FALSE).result
        /\ RequestingSufficiency =>
              /\ run.idx < Len(run.rows)
              /\ llm.pc = "attempt"
              /\ llm.op = "Evidence Sufficiency"
              /\ run.summary \in ReturnedStrings
              /\ run.evidence_content = ReadRow(FALSE).result

\* C18 witness: process_controls is at its second row, whose summary request
\* has returned and whose sufficiency request is being retried, the first
\* row's values being in the lists.
C18_Witness ==
    /\ run.pc = "main_sufficiency"
    /\ run.idx = 1
    /\ Len(run.summary_list) = 1
    /\ llm.op = "Evidence Sufficiency"
    /\ llm.attempt > 0

\* C22 (as claimed): over the whole run every control is analysed once: no
\* row gets a second result, and no evidence is read and no request made for
\* a row that has its result already.
C22_EachControlOnce ==
    run.pc \notin {"idle", "exited", "crashed"} =>
        /\ \A k \in 1 .. Len(run.rows) : ResultsOf(k) <= 1
        /\ (RequestingSummary \/ RequestingSufficiency) => ResultsOf(run.idx + 1) = 0

\* C30 (as claimed): once the summary request of a row has returned its
\* string, an error string or not, the sufficiency request of the row is under
\* way with the corpus read for the row.
C30_SufficiencyWhateverTheSummary ==
    (run.pc # "idle" /\ run.summary # "none") =>
        /\ RequestingSufficiency
        /\ run.summary \in ReturnedStrings
        /\ llm.op = "Evidence Sufficiency"
        /\ llm.pc = "attempt"
        /\ run.evidence_content = ReadRow(FALSE).result

====
